---- MODULE Spec2Model ----
(***************************************************************************)
(* Route navigation engine of whole-foods-deliverance                      *)
(* (src/deliverance/nav.py): Route.navigate, Route.navigate_waypoint and   *)
(* handle_redirect, driven against a browser whose landing after every     *)
(* click, load, reload and collaborator call is chosen by the site.        *)
(*                                                                         *)
(* A URL is a sequence of tokens: the host, the path segments and, after   *)
(* the token "?", the query string.  Python's `x in y` on strings is       *)
(* contiguous-subsequence containment, `+` is concatenation.               *)
(***************************************************************************)
EXTENDS Integers, Sequences, FiniteSets, TLC

\* ------------------------------------------------------------------ bounds
\* Longest waypoint list a Route is built with.
MaxWaypoints == 3

\* --------------------------------------------------------------- constants
\* navigate(self, driver, timeout=20)
timeout == 20

\* config.BASE_URL and config.Patterns
BASE_URL == <<"h">>
AUTH_URL == <<"auth">>
OOS_URL == <<"oos">>
THROTTLE_URL == <<"thr">>

\* The Waypoint objects a Route can be built from, and Waypoint.dest of each.
WaypointObjs == {"w1", "w2"}
dest(w) == IF w = "w1" THEN <<"b">> ELSE <<"c">>

\* Route.route_start values: an ordinary page, and a start page whose URL
\* also contains the throttle pattern.
Starts == { <<"h", "a">>, <<"h", "thr">> }

\* Raw URLs the browser can be found at.
Pages == { <<"h", "a">>, <<"h", "b">>, <<"h", "c">>,
           <<"h", "c", "x">>, <<"h", "b", "?", "q">>,
           <<"h", "auth">>, <<"h", "oos">>, <<"h", "thr">>, <<"h", "z">> }

\* ------------------------------------------------------------ string model
\* Python `sub in s`
Contains(s, sub) ==
    \E k \in 0..(Len(s) - Len(sub)) :
        \A j \in 1..Len(sub) : s[k + j] = sub[j]

\* utils.remove_qs: the URL up to its query string
remove_qs(u) ==
    IF \E k \in 1..Len(u) : u[k] = "?"
    THEN SubSeq(u, 1, (CHOOSE k \in 1..Len(u) :
                          u[k] = "?" /\ \A j \in 1..(k - 1) : u[j] # "?") - 1)
    ELSE u

\* list.index(x): position of the first element equal to x
Index(s, x) == CHOOSE k \in 1..Len(s) : s[k] = x /\ \A j \in 1..(k - 1) : s[j] # x

\* [f(e) for e in s[from:]] with from a 0-based slice start
DestsFrom(s, from) == [k \in 1..(Len(s) - from) |-> dest(s[from + k])]

\* ------------------------------------------------------------------- state
VARIABLES
    route_start,        \* Route.route_start
    waypoints,          \* Route.waypoints: the Waypoint objects, in order
    ignore_oos,         \* Route.args.ignore_oos
    waypoints_reached,  \* Route.waypoints_reached
    current_url,        \* driver.current_url (raw)
    pc,                 \* "idle" | "for" | "except" | "returned" | "raised"
    idx,                \* position of the for loop in waypoints (1-based)
    valid_dest,         \* navigate's local valid_dest
    raised,             \* exception that left navigate, "none" if none
    exc_url,            \* URL written into that exception's message, <<>> if none
    last,               \* the driver or collaborator call made last
    clicks,             \* positions clicked in the current navigate call, in order
    loaded,             \* the current navigate call did driver.get(route_start)
    refreshed,          \* the current navigate call did driver.refresh()
    hr_calls,           \* handle_redirect calls of the current navigate call
    failures,           \* NavigationExceptions raised in the current navigate call
    entry_at_start,     \* the browser was at route_start when the call began
    on_course,          \* every hop of the call so far was clicked or skipped and
                        \* left the browser at its waypoint's own destination
    stale_timeout,      \* the hop just made timed out waiting for staleness
    hr,                 \* branch and location of the handle_redirect call of the
                        \* loop iteration just run, NoRedirect if it made none
    prev,               \* how the Route's previous navigate call ended, "none" if none
    \* run.py, main_loop
    mpc,                \* "off" | "start" | "first_read" | "poll" | "checkout" |
                        \* "after_loops" | "ended" | "crashed"
    checkout,           \* args.checkout
    slots,              \* main_loop's local slots
    executor,           \* "unbound" | "running" | "shutdown"
    submitted,          \* notification tasks handed to executor.submit
    main_exc,           \* exception that left main_loop, "none" if none
    crash_line,         \* line of main_loop whose call raised it, 0 if none
    polls,              \* iterations of `while not slots`
    selected,           \* slots[0].select() calls
    checkout_navs,      \* navigate calls on a CHECKOUT route
    last_nav,           \* how the last of them ended, "none" if none
    rereads,            \* get_slots calls made by the except RouteRedirect clause
    complete_alerts,    \* alert('Checkout complete', 'Hero') calls
    name_errors         \* NameErrors logged by the final try block

nav_vars == <<route_start, waypoints, ignore_oos, waypoints_reached, current_url, pc,
              idx, valid_dest, raised, exc_url, last, clicks, loaded, refreshed,
              hr_calls, failures, entry_at_start, on_course, stale_timeout, hr, prev>>

run_vars == <<mpc, checkout, slots, executor, submitted, main_exc, crash_line, polls,
              selected, checkout_navs, last_nav, rereads, complete_alerts, name_errors>>

vars == <<nav_vars, run_vars>>

route == <<route_start, waypoints, ignore_oos>>

ghosts == <<clicks, loaded, refreshed, hr_calls, failures, entry_at_start, on_course>>

NoRedirect == [branch |-> "none", current |-> <<>>, i |-> 0]

\* Waypoint lists of 1..MaxWaypoints objects; the same object may occur twice.
WaypointLists == UNION { [1..n -> WaypointObjs] : n \in 1..MaxWaypoints }

\* ------------------------------------------------------- nav.py, line by line
\* Variant: the counter is left as the previous call left it.
EntryProgress_Keep(reached) == reached

\* waypoints_reached = 0 on entry to navigate
EntryProgress(reached) == 0

\* remove_qs(driver.current_url) != self.route_start
NeedsStartLoad(url, start) == remove_qs(url) # start

\* valid_dest = [waypnt.dest for waypnt in
\*               self.waypoints[self.waypoints.index(waypoint)+1:]]
ValidDest(wps, i) == DestsFrom(wps, Index(wps, wps[i]))

\* Variant: the raw URL is compared, the query string not removed.
AlreadyAtDest_Raw(url, w) == url = BASE_URL \o dest(w)

\* remove_qs(driver.current_url) == BASE_URL + waypoint.dest
AlreadyAtDest(url, w) == remove_qs(url) = BASE_URL \o dest(w)

\* Variant: the TimeoutException of the staleness wait is not caught.
StaleWaitRaises_Uncaught(timed_out) == timed_out

\* try: WebDriverWait(...).until(EC.staleness_of(elem))
\* except TimeoutException: pass
StaleWaitRaises(timed_out) == FALSE

\* Variant: a valid destination must equal the whole location.
HopLanded_Equal(current, w, vd) ==
    \/ current = BASE_URL \o dest(w)
    \/ vd # <<>> /\ \E k \in 1..Len(vd) : current = BASE_URL \o vd[k]

\* Variant: the location is only tested against the valid destinations.
HopLanded_OnlyValid(current, w, vd) ==
    vd # <<>> /\ \E k \in 1..Len(vd) : Contains(current, vd[k])

\* navigate_waypoint's verdict on the normalized location after the click
HopLanded(current, w, vd) ==
    \/ current = BASE_URL \o dest(w)
    \/ vd # <<>> /\ \E k \in 1..Len(vd) : Contains(current, vd[k])

\* self.waypoints_reached += 1
NextProgress(reached) == reached + 1

\* the for loop taking its next element
NextIndex(i) == i + 1

\* Variant: the loop-back to the start restarts the Route only at progress 0.
Classify_StartAtZero(current, has_route, start, reached, vd, to) ==
    IF Contains(current, AUTH_URL) THEN "auth"
    ELSE IF Contains(current, OOS_URL) THEN "oos"
    ELSE IF Contains(current, THROTTLE_URL) THEN "throttle"
    ELSE IF has_route /\ current = start /\ reached = 0 THEN "start"
    ELSE IF vd # <<>> /\ to # 0 THEN "wait"
    ELSE "unhandled"

\* Variant: the loop-back to the start is tested before the throttle pattern.
Classify_StartFirst(current, has_route, start, reached, vd, to) ==
    IF Contains(current, AUTH_URL) THEN "auth"
    ELSE IF Contains(current, OOS_URL) THEN "oos"
    ELSE IF has_route /\ current = start THEN "start"
    ELSE IF Contains(current, THROTTLE_URL) THEN "throttle"
    ELSE IF vd # <<>> /\ to # 0 THEN "wait"
    ELSE "unhandled"

\* handle_redirect's if/elif chain: the branch taken
Classify(current, has_route, start, reached, vd, to) ==
    IF Contains(current, AUTH_URL) THEN "auth"
    ELSE IF Contains(current, OOS_URL) THEN "oos"
    ELSE IF Contains(current, THROTTLE_URL) THEN "throttle"
    ELSE IF has_route /\ current = start THEN "start"
    ELSE IF vd # <<>> /\ to # 0 THEN "wait"
    ELSE "unhandled"

\* Variant: the throttle branch returns after the backoff.
RaisedBy_ThrottleReturns(branch) ==
    CASE branch = "start"     -> "RouteRedirect"
      [] branch = "unhandled" -> "UnhandledRedirect"
      [] OTHER                -> "none"

\* The exception a branch of handle_redirect ends with, "none" if it returns
RaisedBy(branch) ==
    CASE branch = "throttle"  -> "RouteRedirect"
      [] branch = "start"     -> "RouteRedirect"
      [] branch = "unhandled" -> "UnhandledRedirect"
      [] OTHER                -> "none"

\* deliverance.utils.handle_oos: returns when out-of-stock is tolerated,
\* raises the exception that ends the run when it is not
handle_oos(tolerate) == IF tolerate THEN "none" ELSE "ItemOutOfStock"

\* Variant: out-of-stock is tolerated whatever the Route's flag.
OosTolerance_Always(flag) == TRUE

\* handle_redirect(driver, ignore_oos=self.args.ignore_oos, ...) and
\* handle_oos(driver, ignore_oos): the flag handed to the handler
OosTolerance(flag) == flag

\* Variant: the page is reloaded whatever the progress.
RefreshOnStart_Always(reached) == TRUE

\* `if not route.waypoints_reached: driver.refresh()`
RefreshOnStart(reached) == reached = 0

\* EC.url_matches('|'.join(valid_dest)): re.search over the raw URL
url_matches(vd, raw) == \E k \in 1..Len(vd) : Contains(raw, vd[k])

\* Message of the UnhandledRedirect raised on a timed-out wait
TimeoutMessageUrl(url) == url

\* Message of the UnhandledRedirect raised by the final else: none
NoMatchMessageUrl(url) == <<>>

\* ---------------------------------------------------------------- browser
\* driver.get(url) and driver.refresh(): the page asked for, or the login wall
LoadLandings(url) == {url, <<"h", "auth">>}

\* -------------------------------------------------------------------- Init
NavInit ==
    /\ route_start \in Starts
    /\ waypoints \in WaypointLists
    /\ ignore_oos \in BOOLEAN
    /\ waypoints_reached = 0
    /\ current_url \in Pages
    /\ pc = "idle"
    /\ idx = 0
    /\ valid_dest = <<>>
    /\ raised = "none"
    /\ exc_url = <<>>
    /\ last = "none"
    /\ clicks = <<>>
    /\ loaded = FALSE
    /\ refreshed = FALSE
    /\ hr_calls = 0
    /\ failures = 0
    /\ entry_at_start = FALSE
    /\ on_course = FALSE
    /\ stale_timeout = FALSE
    /\ hr = NoRedirect
    /\ prev = "none"

\* main_loop's locals before main_loop runs
RunInit ==
    /\ checkout \in BOOLEAN
    /\ slots = <<>>
    /\ executor = "unbound"
    /\ submitted = 0
    /\ main_exc = "none"
    /\ crash_line = 0
    /\ polls = 0
    /\ selected = 0
    /\ checkout_navs = 0
    /\ last_nav = "none"
    /\ rereads = 0
    /\ complete_alerts = 0
    /\ name_errors = 0

\* A Route of any shape, the browser anywhere; main_loop is not running.
Init ==
    /\ NavInit
    /\ RunInit
    /\ checkout = FALSE
    /\ mpc = "off"

\* ---------------------------------------------------------- Route.navigate
\* Entry: reset progress, load the start if the browser is elsewhere.  The
\* callers (run.py main_loop, get_slots) call navigate on a fresh Route, after
\* a navigate call that returned, and after one that raised RouteRedirect.
Navigate(land) ==
    /\ \/ pc \in {"idle", "returned"}
       \/ pc = "raised" /\ raised = "RouteRedirect"
    /\ prev' = IF pc = "idle" THEN "none" ELSE IF pc = "returned" THEN "returned" ELSE raised
    /\ waypoints_reached' = EntryProgress(waypoints_reached)
    /\ IF NeedsStartLoad(current_url, route_start)
       THEN /\ land \in LoadLandings(route_start)
            /\ current_url' = land
            /\ loaded' = TRUE
            /\ last' = "get"
       ELSE /\ land = current_url
            /\ current_url' = current_url
            /\ loaded' = FALSE
            /\ last' = "enter"
    /\ clicks' = <<>>
    /\ refreshed' = FALSE
    /\ hr_calls' = 0
    /\ failures' = 0
    /\ entry_at_start' = (remove_qs(current_url) = route_start)
    /\ on_course' = TRUE
    /\ stale_timeout' = FALSE
    /\ idx' = 1
    /\ pc' = "for"
    /\ raised' = "none"
    /\ exc_url' = <<>>
    /\ valid_dest' = <<>>
    /\ hr' = NoRedirect
    /\ UNCHANGED <<route, run_vars>>

InLoop == pc = "for" /\ idx <= Len(waypoints)

\* Loop body, `if` branch: already at the waypoint's destination.
SkipHop ==
    /\ InLoop
    /\ valid_dest' = ValidDest(waypoints, idx)
    /\ AlreadyAtDest(current_url, waypoints[idx])
    /\ last' = "skip"
    /\ hr' = NoRedirect
    /\ stale_timeout' = FALSE
    /\ waypoints_reached' = NextProgress(waypoints_reached)
    /\ idx' = NextIndex(idx)
    /\ UNCHANGED <<route, current_url, pc, raised, exc_url, ghosts, prev, run_vars>>

\* navigate_waypoint: wait_for_element finds no element, the hop fails unclicked.
HopNoElement ==
    /\ InLoop
    /\ valid_dest' = ValidDest(waypoints, idx)
    /\ ~AlreadyAtDest(current_url, waypoints[idx])
    /\ last' = "notfound"
    /\ hr' = NoRedirect
    /\ pc' = "except"
    /\ failures' = failures + 1
    /\ on_course' = FALSE
    /\ stale_timeout' = FALSE
    /\ UNCHANGED <<route, current_url, waypoints_reached, idx, raised, exc_url,
                   clicks, loaded, refreshed, hr_calls, entry_at_start, prev, run_vars>>

\* navigate_waypoint: click, wait for staleness (timed_out: the wait ran into
\* its timeout), read the location, verify it.
Hop(land, timed_out) ==
    /\ InLoop
    /\ valid_dest' = ValidDest(waypoints, idx)
    /\ ~AlreadyAtDest(current_url, waypoints[idx])
    /\ last' = "click"
    /\ hr' = NoRedirect
    /\ clicks' = Append(clicks, idx)
    /\ current_url' = land
    /\ stale_timeout' = timed_out
    /\ on_course' = (on_course /\ remove_qs(land) = BASE_URL \o dest(waypoints[idx]))
    /\ IF StaleWaitRaises(timed_out)
       THEN /\ pc' = "raised"
            /\ raised' = "TimeoutException"
            /\ UNCHANGED <<waypoints_reached, idx, failures>>
       ELSE /\ UNCHANGED raised
            /\ IF HopLanded(remove_qs(land), waypoints[idx], ValidDest(waypoints, idx))
               THEN /\ waypoints_reached' = NextProgress(waypoints_reached)
                    /\ idx' = NextIndex(idx)
                    /\ pc' = pc
                    /\ UNCHANGED failures
               ELSE /\ pc' = "except"
                    /\ failures' = failures + 1
                    /\ UNCHANGED <<waypoints_reached, idx>>
    /\ UNCHANGED <<route, exc_url, loaded, refreshed, hr_calls, entry_at_start, prev,
                   run_vars>>

\* The for loop is exhausted: 'Route complete'.
RouteComplete ==
    /\ pc = "for"
    /\ idx > Len(waypoints)
    /\ pc' = "returned"
    /\ last' = "complete"
    /\ stale_timeout' = FALSE
    /\ UNCHANGED <<route, waypoints_reached, current_url, idx, valid_dest, raised,
                   exc_url, ghosts, hr, prev, run_vars>>

\* --------------------------------------------- handle_redirect, from navigate
Branch == Classify(remove_qs(current_url), TRUE, route_start, waypoints_reached,
                   valid_dest, timeout)

\* handle_redirect is entered and takes branch b.
Called(b) ==
    /\ pc = "except"
    /\ Branch = b
    /\ hr' = [branch |-> b, current |-> remove_qs(current_url), i |-> idx]
    /\ hr_calls' = hr_calls + 1
    /\ stale_timeout' = FALSE
    /\ UNCHANGED <<route, valid_dest, clicks, loaded, failures, entry_at_start,
                   on_course, prev, run_vars>>

\* Variant: after a recovery the loop stays on the waypoint that failed.
Recovered_Retry ==
    /\ pc' = "for"
    /\ UNCHANGED <<waypoints_reached, idx, raised, exc_url>>

\* Variant: the counter is incremented inside the try block only.
Recovered_NotCounted ==
    /\ idx' = NextIndex(idx)
    /\ pc' = "for"
    /\ UNCHANGED <<waypoints_reached, raised, exc_url>>

\* handle_redirect returned: navigate counts the waypoint and goes on.
Recovered ==
    /\ waypoints_reached' = NextProgress(waypoints_reached)
    /\ idx' = NextIndex(idx)
    /\ pc' = "for"
    /\ UNCHANGED <<raised, exc_url>>

\* A branch of handle_redirect that ends with a raise statement, or returns.
End(b, url) ==
    IF RaisedBy(b) = "none"
    THEN Recovered
    ELSE /\ raised' = RaisedBy(b)
         /\ exc_url' = url
         /\ pc' = "raised"
         /\ UNCHANGED <<waypoints_reached, idx>>

\* A collaborator or a wait raised: the exception leaves navigate.
Raise(e, url) ==
    /\ raised' = e
    /\ exc_url' = url
    /\ pc' = "raised"
    /\ UNCHANGED <<waypoints_reached, idx>>

\* wait_for_auth(driver): returns once signed in, the browser then at a page
\* `land` off the login wall, or raises.
RedirectAuth(land, ok) ==
    /\ Called("auth")
    /\ last' = "wait_for_auth"
    /\ UNCHANGED refreshed
    /\ IF ok
       THEN /\ ~Contains(remove_qs(land), AUTH_URL)
            /\ current_url' = land
            /\ End("auth", <<>>)
       ELSE land = current_url /\ current_url' = current_url
            /\ Raise("AuthFailure", <<>>)

\* handle_oos(driver, ignore_oos): aborts the run unless out-of-stock is tolerated.
RedirectOOS(land) ==
    /\ Called("oos")
    /\ last' = "handle_oos"
    /\ UNCHANGED refreshed
    /\ IF handle_oos(OosTolerance(ignore_oos)) = "none"
       THEN current_url' = land /\ End("oos", <<>>)
       ELSE land = current_url /\ current_url' = current_url
            /\ Raise(handle_oos(OosTolerance(ignore_oos)), <<>>)

\* handle_throttle(driver), a blocking backoff delay;
\* raise RouteRedirect('Redirected after throttle')
RedirectThrottle ==
    /\ Called("throttle")
    /\ last' = "handle_throttle"
    /\ UNCHANGED <<refreshed, current_url>>
    /\ End("throttle", <<>>)

\* Back at the Route's start: reload if nothing was reached, raise RouteRedirect.
RedirectStart(land) ==
    /\ Called("start")
    /\ IF RefreshOnStart(waypoints_reached)
       THEN /\ land \in LoadLandings(current_url)
            /\ current_url' = land
            /\ refreshed' = TRUE
            /\ last' = "refresh"
       ELSE /\ land = current_url
            /\ current_url' = current_url
            /\ UNCHANGED refreshed
            /\ last' = "start"
    /\ End("start", <<>>)

\* WebDriverWait(driver, timeout).until(EC.url_matches(...)): the browser is at
\* `land` when the wait ends, matching or timed out.
RedirectWait(land) ==
    /\ Called("wait")
    /\ last' = "wait"
    /\ UNCHANGED refreshed
    /\ current_url' = land
    /\ IF url_matches(valid_dest, land)
       THEN End("wait", <<>>)
       ELSE Raise("UnhandledRedirect", TimeoutMessageUrl(land))

\* else: raise UnhandledRedirect()
RedirectUnhandled ==
    /\ Called("unhandled")
    /\ last' = "unhandled"
    /\ UNCHANGED refreshed
    /\ End("unhandled", NoMatchMessageUrl(current_url))
    /\ UNCHANGED current_url

\* -------------------------------------------------------------------- Next
Next ==
    \/ \E land \in Pages : Navigate(land)
    \/ SkipHop
    \/ HopNoElement
    \/ \E land \in Pages, timed_out \in BOOLEAN : Hop(land, timed_out)
    \/ RouteComplete
    \/ \E land \in Pages, ok \in BOOLEAN : RedirectAuth(land, ok)
    \/ \E land \in Pages : RedirectOOS(land)
    \/ RedirectThrottle
    \/ \E land \in Pages : RedirectStart(land)
    \/ \E land \in Pages : RedirectWait(land)
    \/ RedirectUnhandled

Spec == Init /\ [][Next]_vars

\* The steps of one navigate call after its entry.
Traverse ==
    \/ SkipHop
    \/ HopNoElement
    \/ \E land \in Pages, timed_out \in BOOLEAN : Hop(land, timed_out)
    \/ RouteComplete
    \/ \E land \in Pages, ok \in BOOLEAN : RedirectAuth(land, ok)
    \/ \E land \in Pages : RedirectOOS(land)
    \/ RedirectThrottle
    \/ \E land \in Pages : RedirectStart(land)
    \/ \E land \in Pages : RedirectWait(land)
    \/ RedirectUnhandled

\* Longest Route explored under fairness.
MaxFairWaypoints == 2

FairInit == Init /\ Len(waypoints) <= MaxFairWaypoints

\* Every wait and every collaborator call returns or raises: a call that
\* has a step to take takes it.
FairSpec == FairInit /\ [][Next]_vars /\ WF_vars(Traverse)

\* ------------------------------------------------------- run.py, main_loop
\* Iterations of the polling loop and checkout attempts explored.
MaxPolls == 3
MaxCheckouts == 2

\* What get_slots can return: no slot, one slot, two slots.
SlotLists == {<<>>, <<"s1">>, <<"s1", "s2">>}

\* How a navigate call ends for its caller (pc = "returned", or raised).
NavigateOutcomes == {"returned", "RouteRedirect", "UnhandledRedirect",
                     "ItemOutOfStock", "AuthFailure"}

\* deliverance.exceptions: RouteRedirect and UnhandledRedirect are Redirects.
IsRedirect(e) == e \in {"RouteRedirect", "UnhandledRedirect"}

\* get_slots: at_page is check_current's answer for the slot page, url the
\* location handle_redirect reads, auth_ok whether wait_for_auth returns,
\* nav_out how slot_route.navigate ends, found the slots on the page.
get_slots(at_page, url, auth_ok, flag, nav_out, found) ==
    LET b == Classify(remove_qs(url), FALSE, <<>>, 0, <<>>, 0)
        e == IF b = "auth" THEN (IF auth_ok THEN "none" ELSE "AuthFailure")
             ELSE IF b = "oos"
                  THEN handle_oos(OosTolerance(flag))
             ELSE RaisedBy(b)
        read == [exc |-> "none", slots |-> found]
    IN  IF at_page THEN read
        ELSE IF e = "none" THEN read
        ELSE IF IsRedirect(e)
             THEN IF nav_out = "returned" THEN read
                  ELSE [exc |-> nav_out, slots |-> <<>>]
        ELSE [exc |-> e, slots |-> <<>>]

\* Every way a get_slots call can end.
GetSlotsResults ==
    { get_slots(at_page, url, auth_ok, ignore_oos, nav_out, found) :
          at_page \in BOOLEAN, url \in Pages, auth_ok \in BOOLEAN,
          nav_out \in NavigateOutcomes, found \in SlotLists }

\* Variant: the checkout is attempted whatever args.checkout says.
AfterNotify_Always(flag) == "checkout"

\* `if not args.checkout: break`
AfterNotify(flag) == IF ~flag THEN "after_loops" ELSE "checkout"

\* An exception leaves main_loop from the call at line `line`.
Crash(e, line) ==
    /\ mpc' = "crashed"
    /\ main_exc' = e
    /\ crash_line' = line

\* main_loop starts for a run with the Route and flags given.
MainInit ==
    /\ NavInit
    /\ route_start = <<"h", "a">>
    /\ waypoints = <<"w1", "w2">>
    /\ current_url = <<"h", "a">>
    /\ RunInit
    /\ mpc = "start"

\* wait_for_auth, save_cart, build_route, slot_route.navigate(driver).
\* built: Waypoint offers the `callable` attribute build_route reads.
MainStart(built, nav_out) ==
    /\ mpc = "start"
    /\ IF ~built THEN Crash("AttributeError", 178)
       ELSE IF nav_out = "returned"
            THEN mpc' = "first_read" /\ UNCHANGED <<main_exc, crash_line>>
            ELSE Crash(nav_out, 179)
    /\ UNCHANGED <<nav_vars, checkout, slots, executor, submitted, polls, selected,
                   checkout_navs, last_nav, rereads, complete_alerts, name_errors>>

\* slots = get_slots(...); if slots: annoy, alert; else: the pool is created.
FirstRead(r) ==
    /\ mpc = "first_read"
    /\ IF r.exc # "none"
       THEN Crash(r.exc, 180) /\ UNCHANGED <<slots, executor>>
       ELSE /\ slots' = r.slots
            /\ executor' = IF r.slots # <<>> THEN executor ELSE "running"
            /\ mpc' = IF r.slots # <<>> THEN "after_loops" ELSE "poll"
            /\ UNCHANGED <<main_exc, crash_line>>
    /\ UNCHANGED <<nav_vars, checkout, submitted, polls, selected, checkout_navs,
                   last_nav, rereads, complete_alerts, name_errors>>

\* One iteration of `while not slots` up to the checkout loop.
Poll(r) ==
    /\ mpc = "poll"
    /\ polls < MaxPolls
    /\ polls' = polls + 1
    /\ IF r.exc # "none"
       THEN Crash(r.exc, 190) /\ UNCHANGED <<slots, submitted>>
       ELSE /\ slots' = r.slots
            /\ submitted' = IF r.slots # <<>> THEN submitted + 2 ELSE submitted
            /\ mpc' = IF r.slots # <<>> THEN AfterNotify(checkout) ELSE "poll"
            /\ UNCHANGED <<main_exc, crash_line>>
    /\ UNCHANGED <<nav_vars, checkout, executor, selected, checkout_navs, last_nav,
                   rereads, complete_alerts, name_errors>>

\* One iteration of `while not checked_out`, its except clause included.
Checkout(nav_out, r) ==
    /\ mpc = "checkout"
    /\ selected < MaxCheckouts
    /\ selected' = selected + 1
    /\ checkout_navs' = checkout_navs + 1
    /\ last_nav' = nav_out
    /\ IF nav_out = "returned"
       THEN /\ complete_alerts' = complete_alerts + 1
            /\ mpc' = "after_loops"
            /\ UNCHANGED <<slots, rereads, main_exc, crash_line>>
       ELSE IF nav_out = "RouteRedirect"
       THEN /\ rereads' = rereads + 1
            /\ UNCHANGED complete_alerts
            /\ IF r.exc # "none"
               THEN Crash(r.exc, 209) /\ UNCHANGED slots
               ELSE /\ slots' = r.slots
                    /\ mpc' = IF r.slots # <<>> THEN "checkout" ELSE "poll"
                    /\ UNCHANGED <<main_exc, crash_line>>
       ELSE /\ Crash(nav_out, 204)
            /\ UNCHANGED <<slots, rereads, complete_alerts>>
    /\ UNCHANGED <<nav_vars, checkout, executor, submitted, polls, name_errors>>

\* try: executor.shutdown()  except Exception as e: log.error(e)
Shutdown ==
    /\ mpc = "after_loops"
    /\ mpc' = "ended"
    /\ executor' = IF executor = "running" THEN "shutdown" ELSE executor
    /\ name_errors' = IF executor = "unbound" THEN name_errors + 1 ELSE name_errors
    /\ UNCHANGED <<nav_vars, checkout, slots, submitted, main_exc, crash_line, polls,
                   selected, checkout_navs, last_nav, rereads, complete_alerts>>

MainNext ==
    \/ \E built \in BOOLEAN, nav_out \in NavigateOutcomes : MainStart(built, nav_out)
    \/ \E r \in GetSlotsResults : FirstRead(r)
    \/ \E r \in GetSlotsResults : Poll(r)
    \/ \E nav_out \in NavigateOutcomes, r \in GetSlotsResults : Checkout(nav_out, r)
    \/ Shutdown

MainSpec == MainInit /\ [][MainNext]_vars

\* ===================================================================== claims
\* The location matches none of the authentication, out-of-stock and
\* throttle patterns.
NoPattern(current) ==
    /\ ~Contains(current, AUTH_URL)
    /\ ~Contains(current, OOS_URL)
    /\ ~Contains(current, THROTTLE_URL)

\* The expected destination of the waypoint at position i.
Expected(i) == BASE_URL \o dest(waypoints[i])

\* C1: a waypoint whose turn comes while the normalized location already is
\* its expected destination is not clicked; the loop skips the hop, leaves the
\* browser where it is and moves on to the next waypoint.
C1_SkipPerformsNoClick ==
    [][ (InLoop /\ remove_qs(current_url) = Expected(idx))
        => /\ clicks' = clicks
           /\ current_url' = current_url
           /\ failures' = failures
           /\ pc' = "for"
           /\ idx' = idx + 1 ]_vars

\* C1 witness: the first hop was clicked and landed on the second waypoint's
\* destination, whose hop was then skipped.
C1_Witness ==
    /\ last = "skip"
    /\ idx = 3
    /\ clicks = <<1>>
    /\ remove_qs(current_url) = Expected(2)

\* C2 as stated: at the Route's start with progress > 0 handle_redirect raises
\* no RouteRedirect and does not reload.  (handle_redirect is called for the
\* waypoint at position hr.i with progress hr.i - 1.)
C2_Original ==
    (/\ hr.branch # "none"
     /\ hr.current = route_start
     /\ NoPattern(hr.current)
     /\ hr.i > 1)
    => (raised # "RouteRedirect" /\ ~refreshed)

\* C2 amended: at the Route's start (no authentication, out-of-stock or
\* throttle pattern matching) handle_redirect raises RouteRedirect whatever the
\* progress, and never reaches the valid-destination wait or UnhandledRedirect;
\* progress decides only the reload, done if and only if progress is 0.
C2_StartAlwaysRedirects ==
    (/\ hr.branch # "none"
     /\ hr.current = route_start
     /\ NoPattern(hr.current))
    => /\ hr.branch = "start"
       /\ pc = "raised"
       /\ raised = "RouteRedirect"
       /\ waypoints_reached = hr.i - 1
       /\ refreshed <=> (waypoints_reached = 0)

\* C2 witness: progress 2, then a bounce to the start: RouteRedirect, no reload.
C2_Witness ==
    /\ hr.branch = "start"
    /\ waypoints_reached = 2
    /\ raised = "RouteRedirect"
    /\ ~refreshed
    /\ valid_dest = <<>>

\* C3: handle_redirect takes the first rule that matches, in the order
\* authentication, out-of-stock, throttle, Route start, valid-destination wait,
\* UnhandledRedirect; a location that matches the throttle pattern and equals
\* the Route's start gets the throttle handling and RouteRedirect, unreloaded.
C3_FirstMatchWins ==
    hr.branch # "none" =>
      LET auth     == Contains(hr.current, AUTH_URL)
          oos      == Contains(hr.current, OOS_URL)
          throttle == Contains(hr.current, THROTTLE_URL)
          start    == hr.current = route_start
          wait     == valid_dest # <<>>
      IN  /\ auth => hr.branch = "auth"
          /\ (~auth /\ oos) => hr.branch = "oos"
          /\ (~auth /\ ~oos /\ throttle) =>
                 /\ hr.branch = "throttle"
                 /\ last = "handle_throttle"
                 /\ raised = "RouteRedirect"
                 /\ ~refreshed
          /\ (~auth /\ ~oos /\ ~throttle /\ start) => hr.branch = "start"
          /\ (~auth /\ ~oos /\ ~throttle /\ ~start /\ wait) => hr.branch = "wait"
          /\ (~auth /\ ~oos /\ ~throttle /\ ~start /\ ~wait) =>
                 /\ hr.branch = "unhandled"
                 /\ raised = "UnhandledRedirect"

\* C3 witness: at progress 0 the browser is on a start page that matches the
\* throttle pattern, and the throttle rule was applied.
C3_Witness ==
    /\ hr.branch = "throttle"
    /\ hr.current = route_start
    /\ waypoints_reached = 0
    /\ raised = "RouteRedirect"

C5_ProgressCountsIterations ==
    /\ pc \in {"for", "except", "returned", "raised"} => waypoints_reached = idx - 1
    /\ pc \in {"for", "returned", "raised"} => hr_calls = failures
    /\ pc = "except" => hr_calls = failures - 1
    /\ pc = "raised" => hr.i = idx
    /\ (/\ Len(waypoints) = 2
        /\ pc = "returned"
        /\ failures = 1
        /\ hr.branch = "auth"
        /\ hr.i = 2)
       => (waypoints_reached = 2 /\ hr_calls = 1)

\* C5 witness: both waypoints clicked, the second landed on the login wall,
\* wait_for_auth returned, the Route completed.
C5_Witness ==
    /\ Len(waypoints) = 2
    /\ pc = "returned"
    /\ clicks = <<1, 2>>
    /\ hr.branch = "auth"
    /\ hr.i = 2
    /\ hr_calls = 1
    /\ waypoints_reached = 2

\* C6 as stated: navigate is past waypoint i only with the browser at the
\* destination of waypoint i or of a later waypoint, and returns only with the
\* browser at the last waypoint's destination.  "At the destination of a later
\* waypoint" is read as navigate_waypoint reads it, the location containing
\* that destination, so that no landing navigate_waypoint accepts counts as a
\* wrong page.
C6_Original ==
    /\ (pc = "for" /\ idx > 1)
       => \/ remove_qs(current_url) = Expected(idx - 1)
          \/ \E k \in idx..Len(waypoints) :
                Contains(remove_qs(current_url), dest(waypoints[k]))
    /\ pc = "returned" => remove_qs(current_url) = Expected(Len(waypoints))

\* C7: RouteRedirect (throttle page, loop-back to the start) leaves navigate at
\* once: the loop has not advanced, the failed iteration is not counted, no
\* later waypoint was or is clicked, and nothing follows in the call; a first
\* hop landing on the throttle page raises it at progress 0.
C7_RouteRedirectAbandons ==
    /\ hr.branch \in {"throttle", "start"}
       => /\ pc = "raised"
          /\ raised = "RouteRedirect"
          /\ last \in {"handle_throttle", "refresh", "start"}
          /\ idx = hr.i
          /\ waypoints_reached = hr.i - 1
          /\ \A k \in 1..Len(clicks) : clicks[k] <= hr.i
    /\ raised = "RouteRedirect" => hr.branch \in {"throttle", "start"}

\* C7 witness: the click of the first hop of a longer Route left the browser on
\* the throttle page.
C7_Witness ==
    /\ raised = "RouteRedirect"
    /\ hr.branch = "throttle"
    /\ clicks = <<1>>
    /\ waypoints_reached = 0
    /\ Len(waypoints) >= 2

\* C8: every navigate call begins the loop at the first waypoint with
\* progress 0 and nothing clicked, having loaded route_start exactly when the
\* normalized location differed from it.
C8_EveryCallStartsOver ==
    /\ pc \in {"for", "except", "returned", "raised"} => (loaded <=> ~entry_at_start)
    /\ (pc = "for" /\ idx = 1)
       => /\ waypoints_reached = 0
          /\ clicks = <<>>
          /\ hr_calls = 0
          /\ loaded => (last = "get" /\ current_url \in LoadLandings(route_start))
          /\ ~loaded => (last = "enter" /\ remove_qs(current_url) = route_start)
    /\ pc \in {"for", "except", "returned", "raised"} => idx >= 1
    /\ \A k \in 1..Len(clicks) : clicks[k] >= k

\* C8 witness: the previous call was abandoned by RouteRedirect; the new call
\* loaded the start and stands at the first waypoint with progress 0.
C8_Witness ==
    /\ prev = "RouteRedirect"
    /\ pc = "for"
    /\ idx = 1
    /\ loaded
    /\ waypoints_reached = 0
    /\ remove_qs(current_url) = route_start

\* C9 as stated: every UnhandledRedirect carries the last observed raw location.
C9_Original ==
    raised = "UnhandledRedirect" => exc_url = current_url

\* C10 as stated: the valid_dest computed for the waypoint at position i is the
\* list of destinations of the waypoints at positions i+1..n, in order.
C10_Original ==
    [][ InLoop => valid_dest' = DestsFrom(waypoints, idx) ]_vars

\* C11: a hop succeeds exactly when the normalized location after the click
\* equals the waypoint's own destination or contains one of the valid
\* destinations it was given; whether the staleness wait timed out plays no
\* part, and every other landing is a NavigationException handed to the
\* except clause of navigate.
C11_HopVerdict ==
    last = "click" =>
        LET i == clicks[Len(clicks)]
            current == remove_qs(current_url)
            landed == \/ current = Expected(i)
                      \/ \E k \in 1..Len(valid_dest) : Contains(current, valid_dest[k])
        IN  /\ raised = "none"
            /\ IF landed
               THEN pc = "for" /\ idx = i + 1
               ELSE pc = "except" /\ idx = i

\* A hop whose staleness wait timed out and that landed below a later
\* waypoint's destination is accepted.
C11_Witness ==
    /\ last = "click"
    /\ stale_timeout
    /\ pc = "for"
    /\ idx = 2
    /\ waypoints = <<"w1", "w2">>
    /\ current_url = <<"h", "c", "x">>

\* C12: a hop that lands on the out-of-stock page while the Route's flag
\* ignore_oos is false ends the call with the handler's exception: the
\* progress counter is not incremented, no later waypoint is clicked and
\* 'Route complete' is never reached; with the flag true the handler returns
\* and the loop goes on with the next waypoint.
C12_OutOfStockPolicy ==
    /\ hr.branch = "oos" =>
            IF ignore_oos
            THEN /\ pc = "for" \/ (pc = "returned" /\ hr.i = Len(waypoints))
                 /\ idx = hr.i + 1
                 /\ waypoints_reached = hr.i
            ELSE /\ pc = "raised"
                 /\ raised = "ItemOutOfStock"
                 /\ idx = hr.i
                 /\ waypoints_reached = hr.i - 1
    /\ raised = "ItemOutOfStock" =>
            /\ pc = "raised"
            /\ last = "handle_oos"
            /\ hr.branch = "oos"
            /\ \A k \in 1..Len(clicks) : clicks[k] <= hr.i

\* The first hop of a two-waypoint Route lands on the out-of-stock page and
\* the Route does not tolerate it.
C12_Witness ==
    /\ raised = "ItemOutOfStock"
    /\ ~ignore_oos
    /\ Len(waypoints) = 2
    /\ clicks = <<1>>
    /\ waypoints_reached = 0

\* C14: when every hop of a call leaves the browser at its waypoint's own
\* destination, handle_redirect is never invoked, no hop fails, and the call
\* completes with the progress counter equal to the number of waypoints.
C14_StraightRun ==
    on_course =>
        /\ hr_calls = 0
        /\ failures = 0
        /\ pc \in {"for", "returned"}
        /\ waypoints_reached = idx - 1
        /\ pc = "returned" => waypoints_reached = Len(waypoints)

\* Start /a, waypoints /b then /c, both clicked, both landing as expected.
C14_Witness ==
    /\ on_course
    /\ pc = "returned"
    /\ route_start = <<"h", "a">>
    /\ waypoints = <<"w1", "w2">>
    /\ clicks = <<1, 2>>
    /\ current_url = <<"h", "c">>
    /\ waypoints_reached = 2

\* The loop iterations and except clauses a call can still go through.
StepsLeft ==
    IF pc \in {"for", "except"}
    THEN 2 * (Len(waypoints) + 1 - idx) + (IF pc = "for" THEN 1 ELSE 0)
    ELSE 0

\* C13: a navigate call that is under way ends: it returns after 'Route
\* complete' or it raises, never both, and the exception is RouteRedirect,
\* UnhandledRedirect or a collaborator's; every step of the call uses up one
\* of the at most two steps (hop, recovery) each waypoint allows.
C13_NavigateEnds ==
    /\ (pc \in {"for", "except"}) ~> (pc \in {"returned", "raised"})
    /\ [][ /\ pc \in {"for", "except"} => StepsLeft' < StepsLeft
           /\ pc' = "returned" => raised' = "none" /\ last' = "complete"
           /\ pc' = "raised" =>
                  raised' \in {"RouteRedirect", "UnhandledRedirect",
                               "AuthFailure", "ItemOutOfStock"}
         ]_vars

\* A call over two waypoints that failed and recovered on both ends complete.
C13_Witness ==
    /\ pc = "returned"
    /\ Len(waypoints) = 2
    /\ failures = 2
    /\ hr_calls = 2
    /\ waypoints_reached = 2

\* C16: the loop body outside the except clause (skip, navigate_waypoint)
\* calls no recovery collaborator and never reloads; handle_redirect never
\* clicks; the progress counter moves only by navigate's own increment after
\* handle_redirect returned and stays put when it raised; handle_redirect
\* reloads the page only in the start branch with nothing reached yet.
C16_NavigatorAndClassifierApart ==
    [][ /\ pc = "for" =>
              /\ hr_calls' = hr_calls
              /\ refreshed' = refreshed
              /\ loaded' = loaded
              /\ hr' = NoRedirect \/ hr' = hr
              /\ last' \in {"skip", "click", "notfound", "complete"}
        /\ pc = "except" =>
              /\ clicks' = clicks
              /\ hr_calls' = hr_calls + 1
              /\ loaded' = loaded
              /\ waypoints_reached' =
                     IF pc' = "for" THEN waypoints_reached + 1 ELSE waypoints_reached
              /\ (last' = "refresh" \/ refreshed' # refreshed) =>
                     /\ remove_qs(current_url) = route_start
                     /\ waypoints_reached = 0
                     /\ hr'.branch = "start"
      ]_vars

\* handle_redirect took the start branch with progress already made: no reload.
C16_Witness ==
    /\ hr.branch = "start"
    /\ last = "start"
    /\ ~refreshed
    /\ waypoints_reached = 1
    /\ clicks = <<1, 2>>

\* C19: within one navigate call the waypoints are clicked in route order,
\* each position at most once; a hop that failed and was recovered is behind
\* the loop and is not clicked again.
C19_ClickedAtMostOnce ==
    /\ \A j \in 1..Len(clicks) : \A k \in 1..Len(clicks) :
            j < k => clicks[j] < clicks[k]
    /\ \A k \in 1..Len(clicks) :
            /\ clicks[k] \in 1..Len(waypoints)
            /\ clicks[k] <= idx
            /\ pc \in {"for", "returned"} => clicks[k] < idx

\* Both hops of a two-waypoint Route failed, were recovered, and the call
\* completed with one click each.
C19_Witness ==
    /\ pc = "returned"
    /\ Len(waypoints) = 2
    /\ failures = 2
    /\ clicks = <<1, 2>>
    /\ hr.branch = "auth"

\* C20: the timed wait happens only for a waypoint that has a later waypoint;
\* a failed hop of the last waypoint on a location that matches no pattern
\* and is not the start makes handle_redirect raise UnhandledRedirect at
\* once; a wait that times out raises UnhandledRedirect, one that matches
\* lets the loop go on.
C20_Original ==
    /\ hr.branch = "wait" =>
            /\ hr.i < Len(waypoints)
            /\ \/ pc = "raised" /\ raised = "UnhandledRedirect"
               \/ pc = "for" /\ idx = hr.i + 1
    /\ ( /\ hr.branch # "none"
         /\ hr.i = Len(waypoints)
         /\ NoPattern(hr.current)
         /\ hr.current # route_start ) =>
            /\ hr.branch = "unhandled"
            /\ pc = "raised"
            /\ raised = "UnhandledRedirect"

C18_NoCheckoutWithoutFlag ==
    ~checkout =>
        /\ selected = 0
        /\ checkout_navs = 0
        /\ complete_alerts = 0
        /\ rereads = 0
        /\ mpc # "checkout"
        /\ submitted \in {0, 2}
        /\ submitted > 0 => mpc \in {"after_loops", "ended"} /\ slots # <<>>
        /\ mpc = "ended" => slots # <<>>

\* Slots turned up on the second poll; the notifications went out, the pool
\* was shut down and main_loop ended without any checkout step.
C18_Witness ==
    /\ ~checkout
    /\ mpc = "ended"
    /\ polls = 2
    /\ submitted = 2
    /\ executor = "shutdown"
    /\ selected = 0

====
